---- MODULE Spec2Model ----
(***************************************************************************)
(* Model of finola_miqailla_final.py: the Project Gutenberg word-frequency *)
(* tool.  A page is fetched, its text chunks are tokenized and scanned for *)
(* a "title:" line, the ten most frequent words are computed and stored in *)
(* an sqlite database (tables book and word_frequencies); a second handler *)
(* reads a ranking back by book title.                                     *)
(*                                                                         *)
(* Text is a sequence of one-character strings.  A page is the sequence of *)
(* text chunks HTMLParser hands to handle_data, in document order.         *)
(* A table is the sequence of its rows in rowid order.  The rowid of a     *)
(* word_frequencies row is never read by the program, so only the order of *)
(* the rows is kept; a new row always gets a rowid above every row that    *)
(* exists (INTEGER PRIMARY KEY), i.e. it is appended.                      *)
(***************************************************************************)
EXTENDS Integers, Sequences, FiniteSets, TLC

VARIABLES
    ingests,           \* number of times search_url_and_store has run
    book,              \* table book as the connection sees it (line 22)
    word_frequencies,  \* table word_frequencies as the connection sees it (line 31)
    disk,              \* the committed content of both tables
    last,              \* the handler that ran last, its inputs and its outcome
    running,           \* TRUE while the GUI loop runs (line 176)
    caller,            \* concurrent callers of insert_book on one database
    calls,             \* number of insert_book calls started by the callers
    tokens,            \* input of the frequency count (parser.words)
    top_10,            \* result of the frequency count (line 144)
    counted,           \* TRUE once top_10 has been computed from tokens
    my_parser,         \* a MyHTMLParser the chunks in fed were handed to
    fed                \* the chunks handed to my_parser.handle_data so far

vars == <<ingests, book, word_frequencies, disk, last, running, caller, calls,
          tokens, top_10, counted, my_parser, fed>>

----------------------------------------------------------------------------
(* Characters and strings                                                  *)

NL == "\n"

\* str.lower() on one character (line 132, line 60)
LowerChar(ch) ==
    CASE ch = "T" -> "t"
      [] ch = "A" -> "a"
      [] ch = "B" -> "b"
      [] ch = "D" -> "d"
      [] OTHER -> ch

\* str.lower()
lower(data) == [i \in 1..Len(data) |-> LowerChar(data[i])]

\* \s of the regular expressions and the characters str.strip() removes
IsSpace(ch) == ch \in {" ", NL}

\* IsWordChar for a pattern that takes letters only
IsLetter(ch) ==
    ch \in {"a", "b", "c", "d", "e", "f", "g", "h", "i", "j", "k", "l", "t",
            "x", "z", "A", "B", "D", "T"}

\* \w of the regular expression on line 60
IsWordChar(ch) ==
    ch \in {"a", "b", "c", "d", "e", "f", "g", "h", "i", "j", "k", "l", "t",
            "x", "z", "A", "B", "D", "T", "1", "_"}

\* pat occurs in data at position i
MatchesAt(data, i, pat) ==
    /\ i + Len(pat) - 1 <= Len(data)
    /\ \A k \in 1..Len(pat) : data[i + k - 1] = pat[k]

TitleKey == <<"t", "i", "t", "l", "e", ":">>

\* "title:" in data (line 52): a case-sensitive substring test
ContainsTitleKey(data) ==
    \E i \in 1..Len(data) : MatchesAt(data, i, TitleKey)

\* str.strip() (line 55)
strip(s) ==
    LET keep == {i \in 1..Len(s) : ~IsSpace(s[i])} IN
    IF keep = {} THEN <<>>
    ELSE LET lo == CHOOSE i \in keep : \A j \in keep : i <= j
             hi == CHOOSE i \in keep : \A j \in keep : j <= i
         IN SubSeq(s, lo, hi)

\* re.search(r"title:\s*(.+)", data, re.IGNORECASE) (line 53): the start
\* and end of group 1 for the match that begins at position i, or <<>>.
\* \s* is greedy and gives whitespace back until (.+) finds a character
\* that is not a newline; (.+) then runs to the end of that line.
TitleMatchAt(data, i) ==
    IF ~MatchesAt(lower(data), i, TitleKey) THEN <<>>
    ELSE LET j == i + Len(TitleKey)
             starts == {s \in j..Len(data) :
                          /\ \A k \in j..(s - 1) : IsSpace(data[k])
                          /\ data[s] # NL}
         IN IF starts = {} THEN <<>>
            ELSE LET s == CHOOSE x \in starts : \A y \in starts : y <= x
                     ends == {e \in s..Len(data) :
                                 /\ \A k \in s..e : data[k] # NL
                                 /\ (e = Len(data) \/ data[e + 1] = NL)}
                     e == CHOOSE x \in ends : TRUE
                 IN <<s, e>>

\* match.group(1) of the leftmost match, wrapped in a one-element
\* sequence; <<>> when re.search returns None
TitleSearch(data) ==
    LET hits == {i \in 1..Len(data) : TitleMatchAt(data, i) # <<>>} IN
    IF hits = {} THEN <<>>
    ELSE LET i == CHOOSE x \in hits : \A y \in hits : x <= y
             m == TitleMatchAt(data, i)
         IN << SubSeq(data, m[1], m[2]) >>

\* re.findall(r'\b\w+\b', data) (line 60): the maximal runs of word
\* characters, left to right.  cur is the run being read.
RECURSIVE FindWords(_, _, _)
FindWords(data, i, cur) ==
    IF i > Len(data)
    THEN IF cur = <<>> THEN <<>> ELSE <<cur>>
    ELSE IF IsWordChar(data[i])
         THEN FindWords(data, i + 1, Append(cur, data[i]))
         ELSE IF cur = <<>>
              THEN FindWords(data, i + 1, <<>>)
              ELSE <<cur>> \o FindWords(data, i + 1, <<>>)

findall_words(data) == FindWords(data, 1, <<>>)

----------------------------------------------------------------------------
(* MyHTMLParser                                                            *)

\* MyHTMLParser.__init__ (lines 44-48)
NewParser == [words |-> <<>>, extracted_title |-> <<>>, title_found |-> FALSE]

\* handle_data without the test of title_found: every chunk with a title
\* line sets the title
handle_data_unguarded(parser, data) ==
    LET m == IF ContainsTitleKey(data) THEN TitleSearch(data) ELSE <<>>
        found == m # <<>>
    IN [words |-> parser.words \o findall_words(lower(data)),
        extracted_title |-> IF found THEN strip(m[1])
                            ELSE parser.extracted_title,
        title_found |-> parser.title_found \/ found]

\* MyHTMLParser.handle_data (lines 50-60)
handle_data(parser, data) ==
    LET m == IF ~parser.title_found /\ ContainsTitleKey(data)
             THEN TitleSearch(data) ELSE <<>>
        found == m # <<>>
    IN [words |-> parser.words \o findall_words(lower(data)),
        extracted_title |-> IF found THEN strip(m[1])
                            ELSE parser.extracted_title,
        title_found |-> parser.title_found \/ found]

\* parser.feed: handle_data on every text chunk in document order
RECURSIVE FeedFrom(_, _, _)
FeedFrom(parser, chunks, i) ==
    IF i > Len(chunks) THEN parser
    ELSE FeedFrom(handle_data(parser, chunks[i]), chunks, i + 1)

\* lines 132-135: the page is lowercased as a whole, then parsed
feed(chunks) ==
    FeedFrom(NewParser, [i \in 1..Len(chunks) |-> lower(chunks[i])], 1)

UnknownTitle ==
    <<"U", "n", "k", "n", "o", "w", "n", " ", "T", "i", "t", "l", "e">>

\* line 137
ResolvedTitle(parser) ==
    IF parser.title_found THEN parser.extracted_title ELSE UnknownTitle

----------------------------------------------------------------------------
(* Frequency count (lines 139-144)                                         *)

TopN == 10

\* CountWord with the increment lost: a word seen again keeps the count 1
CountWordOnce(freq, word) ==
    IF \E i \in 1..Len(freq) : freq[i].word = word
    THEN freq
    ELSE Append(freq, [word |-> word, frequency |-> 1])

\* freq[word] = freq.get(word, 0) + 1 (line 142); the dict is the sequence
\* of its items in insertion order
CountWord(freq, word) ==
    IF \E i \in 1..Len(freq) : freq[i].word = word
    THEN [i \in 1..Len(freq) |->
            IF freq[i].word = word
            THEN [word |-> word, frequency |-> freq[i].frequency + 1]
            ELSE freq[i]]
    ELSE Append(freq, [word |-> word, frequency |-> 1])

\* the loop of lines 140-142
RECURSIVE CountFrom(_, _, _)
CountFrom(freq, words, i) ==
    IF i > Len(words) THEN freq
    ELSE CountFrom(CountWord(freq, words[i]), words, i + 1)

\* InsertSorted for a sort that is not stable: item goes in front of the
\* items already placed that have its frequency
InsertSortedUnstable(sorted, item) ==
    LET before == {i \in 1..Len(sorted) : sorted[i].frequency > item.frequency}
        n == Cardinality(before)
    IN SubSeq(sorted, 1, n) \o <<item>> \o SubSeq(sorted, n + 1, Len(sorted))

\* one step of the stable descending sort: item goes behind every item
\* already placed whose frequency is not smaller
InsertSorted(sorted, item) ==
    LET before == {i \in 1..Len(sorted) : sorted[i].frequency >= item.frequency}
        n == Cardinality(before)
    IN SubSeq(sorted, 1, n) \o <<item>> \o SubSeq(sorted, n + 1, Len(sorted))

\* sorted(items, key=frequency, reverse=True): stable, equal keys keep
\* their input order
RECURSIVE SortFrom(_, _, _)
SortFrom(sorted, items, i) ==
    IF i > Len(items) THEN sorted
    ELSE SortFrom(InsertSorted(sorted, items[i]), items, i + 1)

SortedByFrequencyDesc(items) == SortFrom(<<>>, items, 1)

\* seq[:n]
Take(seq, n) == SubSeq(seq, 1, IF Len(seq) < n THEN Len(seq) ELSE n)

\* Top10 without the slice [:10]
Top10Unsliced(words) == SortedByFrequencyDesc(CountFrom(<<>>, words, 1))

\* lines 140-144
Top10(words) == Take(SortedByFrequencyDesc(CountFrom(<<>>, words, 1)), TopN)

----------------------------------------------------------------------------
(* The sqlite connection (lines 17-18).  db is the pair of tables as the   *)
(* connection sees them, together with their committed content.  A change  *)
(* opens a transaction implicitly; it reaches the committed content only   *)
(* at the next conn.commit().  Nothing in the program rolls back.          *)

Committed(db) == [book |-> db.book, word_frequencies |-> db.word_frequencies]

\* conn.commit()
Commit(db) == [db EXCEPT !.disk = Committed(db)]

\* the storage faults a statement or a commit can raise.  at names the
\* statement, k the number of rows executemany wrote before it failed,
\* rollback whether sqlite rolled the open transaction back on the error
\* (it does on some errors, e.g. a full disk, and not on others, e.g. a
\* locked database)
MaxPartial == 1

NoFault == [at |-> "none", k |-> 0, rollback |-> FALSE]

Faults ==
    {NoFault, [at |-> "fetch", k |-> 0, rollback |-> FALSE]}
    \cup {[at |-> a, k |-> 0, rollback |-> r] :
             a \in {"book_insert", "book_commit", "wf_delete", "wf_commit"},
             r \in BOOLEAN}
    \cup {[at |-> "wf_insert", k |-> n, rollback |-> r] :
             n \in 0..MaxPartial, r \in BOOLEAN}

\* the connection after a statement raised
AfterError(db, fault) ==
    IF fault.rollback
    THEN [db EXCEPT !.book = db.disk.book,
                    !.word_frequencies = db.disk.word_frequencies]
    ELSE db

\* the positions of the rows of table rows with this title and link
RowsFor(rows, title, link) ==
    {i \in 1..Len(rows) : rows[i].title = title /\ rows[i].link = link}

\* the id sqlite gives a new book row: one above the largest id
NextBookId(rows) ==
    IF rows = <<>> THEN 1
    ELSE 1 + (CHOOSE m \in {rows[i].id : i \in 1..Len(rows)} :
                 \A i \in 1..Len(rows) : rows[i].id <= m)

\* FirstId for a scan that ends at the last matching row
LastId(rows, hits) ==
    rows[CHOOSE i \in hits : \A j \in hits : j <= i].id

\* cursor.fetchone() after SELECT id FROM book WHERE ...: the id of the
\* first row in rowid order among the positions in hits
FirstId(rows, hits) ==
    rows[CHOOSE i \in hits : \A j \in hits : i <= j].id

\* insert_book without the SELECT: it inserts a row on every call
insert_book_always(db, title, link, fault) ==
    LET id == NextBookId(db.book)
        inserted == [db EXCEPT !.book =
                        Append(db.book, [id |-> id, title |-> title, link |-> link])]
    IN IF fault.at = "book_insert"
       THEN [db |-> AfterError(db, fault), raised |-> TRUE, id |-> 0]
       ELSE IF fault.at = "book_commit"
       THEN [db |-> AfterError(inserted, fault), raised |-> TRUE, id |-> 0]
       ELSE [db |-> Commit(inserted), raised |-> FALSE, id |-> id]

\* insert_book that keeps one row per link: a row with the link and another
\* title gets the new title
insert_book_upsert(db, title, link, fault) ==
    LET hits == RowsFor(db.book, title, link)
        same == {i \in 1..Len(db.book) : db.book[i].link = link}
        id == NextBookId(db.book)
        inserted == [db EXCEPT !.book =
                        IF same = {}
                        THEN Append(db.book, [id |-> id, title |-> title, link |-> link])
                        ELSE [i \in 1..Len(db.book) |->
                                IF i \in same
                                THEN [db.book[i] EXCEPT !.title = title]
                                ELSE db.book[i]]]
        new == IF same = {} THEN id ELSE FirstId(db.book, same)
    IN IF hits # {}
       THEN [db |-> db, raised |-> FALSE, id |-> FirstId(db.book, hits)]
       ELSE IF fault.at = "book_insert"
       THEN [db |-> AfterError(db, fault), raised |-> TRUE, id |-> 0]
       ELSE IF fault.at = "book_commit"
       THEN [db |-> AfterError(inserted, fault), raised |-> TRUE, id |-> 0]
       ELSE [db |-> Commit(inserted), raised |-> FALSE, id |-> new]

\* insert_book that returns, for a new row, the id after the one it used
insert_book_next_id(db, title, link, fault) ==
    LET hits == RowsFor(db.book, title, link)
        id == NextBookId(db.book)
        inserted == [db EXCEPT !.book =
                        Append(db.book, [id |-> id, title |-> title, link |-> link])]
    IN IF hits # {}
       THEN [db |-> db, raised |-> FALSE, id |-> FirstId(db.book, hits)]
       ELSE IF fault.at = "book_insert"
       THEN [db |-> AfterError(db, fault), raised |-> TRUE, id |-> 0]
       ELSE IF fault.at = "book_commit"
       THEN [db |-> AfterError(inserted, fault), raised |-> TRUE, id |-> 0]
       ELSE [db |-> Commit(inserted), raised |-> FALSE, id |-> id + 1]

\* insert_book (lines 64-73)
insert_book(db, title, link, fault) ==
    LET hits == RowsFor(db.book, title, link)
        id == NextBookId(db.book)
        inserted == [db EXCEPT !.book =
                        Append(db.book, [id |-> id, title |-> title, link |-> link])]
    IN IF hits # {}
       THEN [db |-> db, raised |-> FALSE, id |-> FirstId(db.book, hits)]
       ELSE IF fault.at = "book_insert"
       THEN [db |-> AfterError(db, fault), raised |-> TRUE, id |-> 0]
       ELSE IF fault.at = "book_commit"
       THEN [db |-> AfterError(inserted, fault), raised |-> TRUE, id |-> 0]
       ELSE [db |-> Commit(inserted), raised |-> FALSE, id |-> id]

\* insert_word_frequencies without the DELETE: the new rows are added to
\* the old ones
insert_word_frequencies_no_delete(db, book_id, frequencies, fault) ==
    LET Rows(n) == [i \in 1..n |-> [book_id |-> book_id,
                                    word |-> frequencies[i].word,
                                    frequency |-> frequencies[i].frequency]]
        With(rows) == [db EXCEPT !.word_frequencies = rows]
        old == db.word_frequencies
    IN IF fault.at = "wf_delete"
       THEN [db |-> AfterError(db, fault), raised |-> TRUE]
       ELSE IF fault.at = "wf_insert" /\ fault.k < Len(frequencies)
       THEN [db |-> AfterError(With(old \o Rows(fault.k)), fault),
             raised |-> TRUE]
       ELSE IF fault.at = "wf_commit"
       THEN [db |-> AfterError(With(old \o Rows(Len(frequencies))), fault),
             raised |-> TRUE]
       ELSE [db |-> Commit(With(old \o Rows(Len(frequencies)))),
             raised |-> FALSE]

\* insert_word_frequencies with a DELETE that has no WHERE: it empties the
\* table
insert_word_frequencies_delete_all(db, book_id, frequencies, fault) ==
    LET Rows(n) == [i \in 1..n |-> [book_id |-> book_id,
                                    word |-> frequencies[i].word,
                                    frequency |-> frequencies[i].frequency]]
        With(rows) == [db EXCEPT !.word_frequencies = rows]
    IN IF fault.at = "wf_delete"
       THEN [db |-> AfterError(db, fault), raised |-> TRUE]
       ELSE IF fault.at = "wf_insert" /\ fault.k < Len(frequencies)
       THEN [db |-> AfterError(With(Rows(fault.k)), fault), raised |-> TRUE]
       ELSE IF fault.at = "wf_commit"
       THEN [db |-> AfterError(With(Rows(Len(frequencies))), fault),
             raised |-> TRUE]
       ELSE [db |-> Commit(With(Rows(Len(frequencies)))), raised |-> FALSE]

\* insert_word_frequencies (lines 75-82)
insert_word_frequencies(db, book_id, frequencies, fault) ==
    LET Other(row) == row.book_id # book_id
        deleted == SelectSeq(db.word_frequencies, Other)
        Rows(n) == [i \in 1..n |-> [book_id |-> book_id,
                                    word |-> frequencies[i].word,
                                    frequency |-> frequencies[i].frequency]]
        With(rows) == [db EXCEPT !.word_frequencies = rows]
    IN IF fault.at = "wf_delete"
       THEN [db |-> AfterError(db, fault), raised |-> TRUE]
       ELSE IF fault.at = "wf_insert" /\ fault.k < Len(frequencies)
       THEN [db |-> AfterError(With(deleted \o Rows(fault.k)), fault),
             raised |-> TRUE]
       ELSE IF fault.at = "wf_commit"
       THEN [db |-> AfterError(With(deleted \o Rows(Len(frequencies))), fault),
             raised |-> TRUE]
       ELSE [db |-> Commit(With(deleted \o Rows(Len(frequencies)))),
             raised |-> FALSE]

\* ORDER BY frequency DESC (line 95): sqlite sorts the rows it scans in
\* rowid order and keeps rows of equal frequency in that order
OrderByFrequencyDesc(rows) == SortFrom(<<>>, rows, 1)

\* fetch_frequencies_by_title (lines 84-98)
fetch_frequencies_by_title(db, title) ==
    LET hits == {i \in 1..Len(db.book) : db.book[i].title = title} IN
    IF hits = {} THEN <<>>
    ELSE LET book_id == FirstId(db.book, hits)
             Mine(row) == row.book_id = book_id
             mine == SelectSeq(db.word_frequencies, Mine)
             rows == [i \in 1..Len(mine) |->
                        [word |-> mine[i].word, frequency |-> mine[i].frequency]]
         IN Take(OrderByFrequencyDesc(rows), TopN)

----------------------------------------------------------------------------
(* Inputs                                                                  *)

\* "Title: A\nb B"
PageA == << <<"T", "i", "t", "l", "e", ":", " ", "A", NL, "b", " ", "B">> >>

\* "<p>c</p>title: a"
PageA2 == << <<"c">>, <<"t", "i", "t", "l", "e", ":", " ", "a">> >>

\* "title: d\na b c d e f g h i j k l a": more than ten distinct words
PageLong ==
    << <<"t", "i", "t", "l", "e", ":", " ", "d", NL,
         "a", " ", "b", " ", "c", " ", "d", " ", "e", " ", "f", " ", "g", " ",
         "h", " ", "i", " ", "j", " ", "k", " ", "l", " ", "a">> >>

\* "..." : a page without a word
PageNoWords == << <<".", ".", ".">> >>

\* "x z x": words, no title line
PageNoTitle == << <<"x", " ", "z", " ", "x">> >>

Pages == {PageA, PageA2, PageLong, PageNoWords, PageNoTitle}

\* what lines 134-144 compute from a page
Analysis ==
    [content \in Pages |->
        LET parser == feed(content) IN
        [title |-> ResolvedTitle(parser),
         words |-> parser.words,
         top_10 |-> Top10(parser.words)]]


\* url_entry.get().strip() (line 125)
Links == {"", "u1", "u2"}

\* title_entry.get().strip() (line 113)
Titles == {<<>>, <<"a">>, <<"d">>, <<"z">>, UnknownTitle}

----------------
(* The two handlers                                                        *)

\* what a run of search_url_and_store leaves: the connection, what was
\* displayed (outcome, result), the title resolved and the id insert_book
\* returned
Handled(db, outcome, title, book_id, result) ==
    [db |-> db, outcome |-> outcome, title |-> title, book_id |-> book_id,
     result |-> result]

\* lines 148-152, w being what insert_word_frequencies did
ShowStored(w, book_id, title, ranking) ==
    IF w.raised
    THEN Handled(w.db, "error", title, book_id, <<>>)
    ELSE Handled(w.db, "stored", title, book_id, ranking)

\* lines 147-152, b being what insert_book did
StoreRanking(b, title, ranking, fault) ==
    IF b.raised
    THEN Handled(b.db, "error", title, 0, <<>>)
    ELSE ShowStored(insert_word_frequencies(b.db, b.id, ranking, fault),
                    b.id, title, ranking)

\* search_url_and_store (lines 123-152)
search_url_and_store(db, link, content, fault) ==
    IF link = ""
    THEN Handled(db, "input_error", <<>>, 0, <<>>)
    ELSE IF fault.at = "fetch"
    THEN Handled(db, "error", <<>>, 0, <<>>)
    ELSE StoreRanking(insert_book(db, Analysis[content].title, link, fault),
                      Analysis[content].title, Analysis[content].top_10, fault)

\* search_local_title (lines 111-121)
search_local_title(db, title) ==
    LET results == fetch_frequencies_by_title(db, title) IN
    IF title = <<>> THEN [outcome |-> "input_error", result |-> <<>>]
    ELSE IF results # <<>> THEN [outcome |-> "found", result |-> results]
    ELSE [outcome |-> "not_found", result |-> results]

----------------------------------------------------------------------------------------------------------------------------------------
(* The program: one GUI process, handlers run one at a time                *)

DB == [book |-> book, word_frequencies |-> word_frequencies, disk |-> disk]

EmptyTables == [book |-> <<>>, word_frequencies |-> <<>>]

\* last: op, the handler; link, content, title, its inputs (title is the
\* title the ingestion resolved); outcome and result, what it displayed;
\* book_id, the id insert_book returned (0 if it did not return);
\* existed, insert_book found the row; repeat, the handler stored the same
\* page from the same link as the handler that ran right before it
NoOp == [op |-> "none", link |-> "", content |-> <<>>, title |-> <<>>,
         outcome |-> "none", book_id |-> 0, result |-> <<>>,
         existed |-> FALSE, repeat |-> FALSE]

Callers == {1, 2}

IdleCaller == [pc |-> "idle", title |-> <<>>, link |-> "", found |-> 0, id |-> 0]

IdleCallers == [p \in Callers |-> IdleCaller]

MaxIngests == 2

Init ==
    /\ ingests = 0
    /\ book = <<>>
    /\ word_frequencies = <<>>
    /\ disk = EmptyTables
    /\ last = NoOp
    /\ running = TRUE
    /\ caller = IdleCallers
    /\ calls = 0
    /\ tokens = <<>>
    /\ top_10 = <<>>
    /\ counted = FALSE
    /\ my_parser = NewParser
    /\ fed = <<>>

\* the handler has run with result r: the tables and the record of it
Record(r, link, content, fault) ==
    /\ (fault.at # "none") => (r.outcome = "error")
    /\ book' = r.db.book
    /\ word_frequencies' = r.db.word_frequencies
    /\ disk' = r.db.disk
    /\ last' = [op |-> "ingest", link |-> link, content |-> content,
                title |-> r.title, outcome |-> r.outcome,
                book_id |-> r.book_id, result |-> r.result,
                existed |-> /\ r.book_id # 0
                            /\ RowsFor(book, r.title, link) # {},
                repeat |-> /\ r.outcome = "stored"
                           /\ last.op = "ingest"
                           /\ last.outcome = "stored"
                           /\ last.link = link
                           /\ last.content = content]

\* the button "Fetch from URL and store" (line 169)
Ingest(link, content, fault) ==
    /\ running
    /\ ingests < MaxIngests
    /\ ingests' = ingests + 1
    /\ Record(search_url_and_store(DB, link, content, fault), link, content, fault)
    /\ UNCHANGED <<running, caller, calls, tokens, top_10, counted, my_parser, fed>>

\* the button "Fetch from local DB" (line 163)
Lookup(title) ==
    LET r == search_local_title(DB, title) IN
    /\ running
    /\ last' = [NoOp EXCEPT !.op = "lookup", !.title = title,
                             !.outcome = r.outcome, !.result = r.result]
    /\ UNCHANGED <<ingests, book, word_frequencies, disk, running, caller, calls,
                   tokens, top_10, counted, my_parser, fed>>

\* the window is closed: mainloop returns, lines 179-180
Close ==
    /\ running
    /\ running' = FALSE
    /\ disk' = Committed(DB)
    /\ last' = [NoOp EXCEPT !.op = "close"]
    /\ UNCHANGED <<ingests, book, word_frequencies, caller, calls,
                   tokens, top_10, counted, my_parser, fed>>

Next ==
    \/ \E link \in Links, content \in Pages, fault \in Faults :
          Ingest(link, content, fault)
    \/ \E title \in Titles : Lookup(title)
    \/ Close

Spec == Init /\ [][Next]_vars

----------------------------------------------------------------------------
(* Two pipeline instances on one database file, each with a connection of  *)
(* its own, both inside insert_book.  Neither has an open transaction      *)
(* when it calls, so each reads the committed tables.  INSERT and commit   *)
(* (lines 71-72) are one step: sqlite's write lock keeps the other         *)
(* connection from seeing or writing anything in between.                  *)

MaxCalls == 3

CallTitles == {<<"a">>, <<"d">>}

CallLinks == {"u1", "u2"}

\* insert_book(title, link) is called
CallInsertBook(p, title, link) ==
    /\ caller[p].pc = "idle"
    /\ calls < MaxCalls
    /\ calls' = calls + 1
    /\ caller' = [caller EXCEPT ![p] = [pc |-> "select", title |-> title,
                                         link |-> link, found |-> 0, id |-> 0]]
    /\ UNCHANGED <<ingests, book, word_frequencies, disk, last, running,
                   tokens, top_10, counted, my_parser, fed>>

\* lines 66-67: SELECT and fetchone; found is 0 for no row
SelectBook(p) ==
    LET c == caller[p]
        hits == RowsFor(disk.book, c.title, c.link)
    IN /\ c.pc = "select"
       /\ caller' = [caller EXCEPT ![p].pc = "selected",
                                   ![p].found = IF hits = {} THEN 0
                                                ELSE FirstId(disk.book, hits)]
       /\ UNCHANGED <<ingests, book, word_frequencies, disk, last, running,
                      calls, tokens, top_10, counted, my_parser, fed>>

\* lines 68-69
ReturnExisting(p) ==
    /\ caller[p].pc = "selected"
    /\ caller[p].found # 0
    /\ caller' = [caller EXCEPT ![p].pc = "done", ![p].id = caller[p].found]
    /\ UNCHANGED <<ingests, book, word_frequencies, disk, last, running,
                   calls, tokens, top_10, counted, my_parser, fed>>

\* lines 70-73
InsertAndReturn(p) ==
    LET c == caller[p]
        id == NextBookId(disk.book)
    IN /\ c.pc = "selected"
       /\ c.found = 0
       /\ disk' = [disk EXCEPT !.book =
                      Append(disk.book, [id |-> id, title |-> c.title,
                                         link |-> c.link])]
       /\ caller' = [caller EXCEPT ![p].pc = "done", ![p].id = id]
       /\ UNCHANGED <<ingests, book, word_frequencies, last, running,
                      calls, tokens, top_10, counted, my_parser, fed>>

\* the caller goes on with the id; it may call again
Resume(p) ==
    /\ caller[p].pc = "done"
    /\ caller' = [caller EXCEPT ![p] = IdleCaller]
    /\ UNCHANGED <<ingests, book, word_frequencies, disk, last, running,
                   calls, tokens, top_10, counted, my_parser, fed>>

NextConc ==
    \/ \E p \in Callers, title \in CallTitles, link \in CallLinks :
          CallInsertBook(p, title, link)
    \/ \E p \in Callers : SelectBook(p)
    \/ \E p \in Callers : ReturnExisting(p)
    \/ \E p \in Callers : InsertAndReturn(p)
    \/ \E p \in Callers : Resume(p)

SpecConc == Init /\ [][NextConc]_vars

----------------------------------------------------------------------------
(* The frequency count on its own, over bounded word lists                 *)

MaxDistinct == 11

MaxExtra == 2

WordPool == <<"a", "b", "c", "d", "e", "f", "g", "h", "i", "j", "k", "l", "x", "z">>

\* the first n words of the pool, each once
Distinct(n) == [i \in 1..n |-> <<WordPool[i]>>]

\* word lists of at most MaxExtra words over three words of the pool
Extra ==
    UNION {[1..n -> {<<"a">>, <<"k">>, <<"l">>}] : n \in 0..MaxExtra}

CountInputs ==
    {head \o Distinct(n) \o tail :
        head \in Extra, n \in 0..MaxDistinct, tail \in Extra}

InitCount ==
    /\ ingests = 0
    /\ book = <<>>
    /\ word_frequencies = <<>>
    /\ disk = EmptyTables
    /\ last = NoOp
    /\ running = TRUE
    /\ caller = IdleCallers
    /\ calls = 0
    /\ tokens \in CountInputs
    /\ top_10 = <<>>
    /\ counted = FALSE
    /\ my_parser = NewParser
    /\ fed = <<>>

\* lines 139-144 on parser.words = tokens
Count ==
    /\ ~counted
    /\ top_10' = Top10(tokens)
    /\ counted' = TRUE
    /\ UNCHANGED <<ingests, book, word_frequencies, disk, last, running,
                   caller, calls, tokens, my_parser, fed>>

NextCount == Count

SpecCount == InitCount /\ [][NextCount]_vars

----------------------------------------------------------------------------
(* The parser on its own: chunks are handed to handle_data one by one      *)

MaxChunks == 3

MaxJoin == 2

\* words of lowercase letters and digits
TokenPool == {<<"a", "d">>, <<"b", "1">>}

TokenLists == UNION {[1..n -> TokenPool] : n \in 0..MaxJoin}

\* " ".join(words)
RECURSIVE JoinFrom(_, _)
JoinFrom(words, i) ==
    IF i > Len(words) THEN <<>>
    ELSE IF i = Len(words) THEN words[i]
    ELSE words[i] \o <<" ">> \o JoinFrom(words, i + 1)

Join(words) == JoinFrom(words, 1)

\* "title:"
ChunkKeyOnly == <<"t", "i", "t", "l", "e", ":">>

\* "title:\n"
ChunkKeyNewline == <<"t", "i", "t", "l", "e", ":", NL>>

\* "title: a"
ChunkTitleA == <<"t", "i", "t", "l", "e", ":", " ", "a">>

\* "x title:  b d \nc"
ChunkTitleBD ==
    <<"x", " ", "t", "i", "t", "l", "e", ":", " ", " ", "b", " ", "d", " ", NL, "c">>

\* "Title: D"
ChunkUpperTitle == <<"T", "i", "t", "l", "e", ":", " ", "D">>

Chunks ==
    {ChunkKeyOnly, ChunkKeyNewline, ChunkTitleA, ChunkTitleBD, ChunkUpperTitle}
    \cup {Join(words) : words \in TokenLists}

\* my_parser.handle_data(data) is called
HandleData(data) ==
    /\ Len(fed) < MaxChunks
    /\ my_parser' = handle_data(my_parser, data)
    /\ fed' = Append(fed, data)
    /\ UNCHANGED <<ingests, book, word_frequencies, disk, last, running,
                   caller, calls, tokens, top_10, counted>>

NextParse == \E data \in Chunks : HandleData(data)

SpecParse == Init /\ [][NextParse]_vars

----------------------------------------------------------------------------
(* Properties                                                              *)

\* the connection after the step
DBafter == [book |-> book', word_frequencies |-> word_frequencies', disk |-> disk']

\* the (word, frequency) pairs table rows holds for book_id, in rowid order
RankingOf(rows, book_id) ==
    LET Mine(row) == row.book_id = book_id
        mine == SelectSeq(rows, Mine)
    IN [i \in 1..Len(mine) |->
          [word |-> mine[i].word, frequency |-> mine[i].frequency]]

Range(seq) == {seq[i] : i \in 1..Len(seq)}

\* no two rows of a book table have the same title and link
NoDuplicateBooks(rows) ==
    \A i, j \in 1..Len(rows) :
        (rows[i].title = rows[j].title /\ rows[i].link = rows[j].link) => i = j

\* C1: after an ingestion has stored its ranking, a lookup of the title it
\* resolved returns exactly the ranking the ingestion displayed.
C1_RoundTrip ==
    (last.op = "ingest" /\ last.outcome = "stored")
        => fetch_frequencies_by_title(DB, last.title) = last.result

\* C2: a lookup of a title no book row has gives an outcome that differs
\* from the outcome of a lookup of a title whose book has no ranking rows.
C2_NotFoundDistinct ==
    \A t1, t2 \in Titles \ {<<>>} :
        LET hits1 == {i \in 1..Len(book) : book[i].title = t1}
            hits2 == {i \in 1..Len(book) : book[i].title = t2}
        IN (/\ hits1 = {}
            /\ hits2 # {}
            /\ RankingOf(word_frequencies, FirstId(book, hits2)) = <<>>)
           => search_local_title(DB, t1) # search_local_title(DB, t2)

\* C3: no two book rows ever share title and link; an ingestion that stores
\* for a (title, link) that has a row gets that row's id and adds no row, and
\* one that has none adds exactly one row and gets its id.
C3_GetOrCreateOnce ==
    [][/\ NoDuplicateBooks(book')
       /\ NoDuplicateBooks(disk'.book)
       /\ (last'.op = "ingest" /\ last'.outcome = "stored") =>
            LET before == RowsFor(book, last'.title, last'.link)
                after == RowsFor(book', last'.title, last'.link)
            IN /\ Cardinality(after) = 1
               /\ \A i \in after : book'[i].id = last'.book_id
               /\ before # {} => book' = book
               /\ before = {} => Len(book') = Len(book) + 1
               /\ disk'.book = book']_vars

\* a second ingestion found the row the first one created
C3_Witness ==
    /\ last.op = "ingest"
    /\ last.outcome = "stored"
    /\ last.existed
    /\ ingests = 2
    /\ Len(book) = 1

\* C4: when a link is ingested again right after it was ingested, a lookup
\* of the old or the new title returns no row of the earlier ranking whose
\* word does not occur in the new page.
C4_ReingestReplaces ==
    [][(/\ last.op = "ingest" /\ last.outcome = "stored"
        /\ last'.op = "ingest" /\ last'.outcome = "stored"
        /\ ingests' = ingests + 1
        /\ last'.link = last.link) =>
          \A t \in {last.title, last'.title} :
             \A row \in Range(fetch_frequencies_by_title(DBafter, t)) :
                ~(/\ row \in Range(last.result)
                  /\ row.word \notin Range(Analysis[last'.content].words))]_vars

\* C5: storing the same page from the same link twice in a row adds no book
\* row, leaves one row for the (title, link) and leaves that book's ranking
\* rows as they were, in the connection and on disk.
C5_IngestIdempotent ==
    [][(last'.op = "ingest" /\ last'.repeat) =>
          /\ book' = book
          /\ Cardinality(RowsFor(book', last'.title, last'.link)) = 1
          /\ last'.book_id = last.book_id
          /\ RankingOf(word_frequencies', last'.book_id)
                = RankingOf(word_frequencies, last'.book_id)
          /\ RankingOf(word_frequencies', last'.book_id) = last'.result
          /\ disk' = disk]_vars

\* the same page was stored twice and has a ranking with a count above 1
C5_Witness ==
    /\ last.op = "ingest"
    /\ last.repeat
    /\ \E row \in Range(RankingOf(word_frequencies, last.book_id)) :
          row.frequency > 1

\* C6: an ingestion that reached insert_word_frequencies leaves, for its
\* book, either all the rows that were there or all the rows of the new
\* ranking, whether or not it failed.
C6_NoPartialRanking ==
    [][(last'.op = "ingest" /\ last'.book_id # 0 /\ ingests' = ingests + 1) =>
          LET now == RankingOf(word_frequencies', last'.book_id) IN
          \/ now = RankingOf(word_frequencies, last'.book_id)
          \/ now = Analysis[last'.content].top_10]_vars

\* C7: an ingestion that ends in an error changes neither the committed
\* tables nor the tables the connection sees (so a later commit has
\* nothing of it to write).
C7_FailedIngestLeavesNoTrace ==
    [][(last'.op = "ingest" /\ last'.outcome = "error"
        /\ ingests' = ingests + 1) =>
          /\ disk' = disk
          /\ book' = book
          /\ word_frequencies' = word_frequencies]_vars

\* C8: with two callers of insert_book on one database, no two book rows
\* share title and link, and two callers that hold an id for the same
\* title and link hold the same id.
C8_ConcurrentGetOrCreate ==
    /\ NoDuplicateBooks(disk.book)
    /\ \A p, q \in Callers :
          (/\ caller[p].pc = "done" /\ caller[q].pc = "done"
           /\ caller[p].title = caller[q].title
           /\ caller[p].link = caller[q].link)
          => caller[p].id = caller[q].id

\* C9: in the connection and on disk, every book_id has at most 10
\* word_frequencies rows, each with a frequency of at least 1.
C9_AtMostTenRows ==
    \A rows \in {word_frequencies, disk.word_frequencies} :
        \A i \in 1..Len(rows) :
            /\ rows[i].frequency >= 1
            /\ Cardinality({j \in 1..Len(rows) :
                              rows[j].book_id = rows[i].book_id}) <= TopN

\* a page with more than 10 distinct words was stored: its book has 10 rows
C9_Witness ==
    /\ last.op = "ingest"
    /\ last.outcome = "stored"
    /\ Cardinality(Range(Analysis[last.content].words)) > TopN
    /\ Len(RankingOf(word_frequencies, last.book_id)) = TopN

\* C10: the ranking has at most 10 entries, is sorted by descending count,
\* names no word twice, and gives every word its number of occurrences in
\* the word list; an empty word list gives an empty ranking.
C10_Top10Correct ==
    counted =>
        /\ Len(top_10) <= TopN
        /\ \A i, j \in 1..Len(top_10) :
              i < j => top_10[i].frequency >= top_10[j].frequency
        /\ \A i, j \in 1..Len(top_10) :
              top_10[i].word = top_10[j].word => i = j
        /\ \A i \in 1..Len(top_10) :
              top_10[i].frequency =
                 Cardinality({k \in 1..Len(tokens) : tokens[k] = top_10[i].word})
        /\ tokens = <<>> => top_10 = <<>>

\* a word list with more than 10 distinct words and a repeated word was
\* counted
C10_Witness ==
    /\ counted
    /\ Cardinality(Range(tokens)) > TopN
    /\ Len(top_10) = TopN
    /\ top_10[1].frequency > top_10[TopN].frequency


\* the first chunk of a page that has "title:" in any letter case; 0 if none
FirstTitleChunk(content) ==
    LET has == {c \in 1..Len(content) :
                  \E i \in 1..Len(content[c]) :
                     MatchesAt(lower(content[c]), i, TitleKey)}
    IN IF has = {} THEN 0 ELSE CHOOSE c \in has : \A d \in has : c <= d

\* the text of data after its first "title:" up to the end of that line
AfterTitleKey(data) ==
    LET at == {i \in 1..Len(data) : MatchesAt(lower(data), i, TitleKey)}
        i == CHOOSE x \in at : \A y \in at : x <= y
        from == i + Len(TitleKey)
        nls == {k \in from..Len(data) : data[k] = NL}
        to == IF nls = {} THEN Len(data)
              ELSE (CHOOSE x \in nls : \A y \in nls : x <= y) - 1
    IN SubSeq(data, from, to)

\* C11: when the first chunk of the page with "title:" (in any letter case)
\* has text after it on the same line, the title the ingestion resolves is
\* that text, trimmed and otherwise as written in the page.
C11_TitleAsWritten ==
    (/\ last.op = "ingest"
     /\ last.outcome = "stored"
     /\ FirstTitleChunk(last.content) # 0
     /\ strip(AfterTitleKey(last.content[FirstTitleChunk(last.content)])) # <<>>)
    => last.title = strip(AfterTitleKey(last.content[FirstTitleChunk(last.content)]))


\* C12: handing the parser a list of lowercase alphanumeric words joined by
\* single spaces adds exactly that list, in order, to its words.
C12_TokenizeJoined ==
    [][\A words \in TokenLists :
          (fed' = Append(fed, Join(words)))
             => my_parser'.words = my_parser.words \o words]_vars

\* a joined list of two words, one with a digit, was tokenized
C12_Witness ==
    \E words \in TokenLists :
        /\ Len(words) = 2
        /\ <<"b", "1">> \in Range(words)
        /\ fed = <<Join(words)>>
        /\ my_parser.words = words

\* the position of the first occurrence of word in tokens
FirstSeen(word) ==
    CHOOSE i \in 1..Len(tokens) :
        /\ tokens[i] = word
        /\ \A j \in 1..(i - 1) : tokens[j] # word

Occurrences(word) == Cardinality({k \in 1..Len(tokens) : tokens[k] = word})

RankedWords == {top_10[i].word : i \in 1..Len(top_10)}

\* C13: entries of the ranking with equal counts are in the order of their
\* first occurrence in the word list, and a word left out of the ranking
\* that has the count of an entry was first seen after that entry's word.
C13_TiesByFirstSeen ==
    counted =>
        /\ \A i, j \in 1..Len(top_10) :
              (i < j /\ top_10[i].frequency = top_10[j].frequency)
                 => FirstSeen(top_10[i].word) < FirstSeen(top_10[j].word)
        /\ \A word \in Range(tokens) \ RankedWords :
              \A i \in 1..Len(top_10) :
                 top_10[i].frequency = Occurrences(word)
                    => FirstSeen(top_10[i].word) < FirstSeen(word)

\* more than 10 distinct words were counted, a word tied with the last
\* entry was left out, and a word counted twice stands before the ties
C13_Witness ==
    /\ counted
    /\ Len(top_10) = TopN
    /\ \E word \in Range(tokens) \ RankedWords :
          Occurrences(word) = top_10[TopN].frequency
    /\ top_10[1].frequency > top_10[2].frequency
    /\ top_10[2].frequency = top_10[3].frequency

\* C14: once a chunk has given the parser a title, no later chunk changes
\* it; while there is no title, a chunk with "title:" that the pattern does
\* not match leaves the parser without a title, and a chunk that the
\* pattern matches sets the title to the trimmed capture.
C14_FirstTitleKept ==
    [][/\ my_parser.title_found =>
            /\ my_parser'.title_found
            /\ my_parser'.extracted_title = my_parser.extracted_title
       /\ (~my_parser.title_found /\ Len(fed') = Len(fed) + 1) =>
            LET data == fed'[Len(fed')] IN
            IF ContainsTitleKey(data) /\ TitleSearch(data) # <<>>
            THEN /\ my_parser'.title_found
                 /\ my_parser'.extracted_title = strip(TitleSearch(data)[1])
            ELSE ~my_parser'.title_found]_vars

\* a chunk with "title:" and no capture, then a chunk that gave the title,
\* then a chunk with another title line: the title is the second chunk's
C14_Witness ==
    /\ fed = <<ChunkKeyNewline, ChunkTitleBD, ChunkTitleA>>
    /\ my_parser.title_found
    /\ my_parser.extracted_title = <<"b", " ", "d">>


\* the smallest id among the book rows with this title: the book with the
\* title that was created first
EarliestId(title) ==
    LET ids == {book[i].id : i \in {k \in 1..Len(book) : book[k].title = title}}
    IN CHOOSE id \in ids : \A other \in ids : id <= other

\* C15: a lookup of a title that one or more book rows have returns the
\* rows stored for the earliest-created of them, as they were stored, and
\* nothing of the others.
C15_FirstMatchOnly ==
    \A title \in Titles :
        (\E i \in 1..Len(book) : book[i].title = title)
           => fetch_frequencies_by_title(DB, title)
                 = RankingOf(word_frequencies, EarliestId(title))

\* two pages without a title line were stored from two links, the second
\* one last; the lookup of "Unknown Title" gives the first one's ranking
C15_Witness ==
    /\ Len(book) = 2
    /\ book[1].title = UnknownTitle
    /\ book[2].title = UnknownTitle
    /\ book[1].link # book[2].link
    /\ last.op = "ingest"
    /\ last.outcome = "stored"
    /\ last.book_id = book[2].id
    /\ last.result # <<>>
    /\ RankingOf(word_frequencies, book[1].id) # last.result
    /\ fetch_frequencies_by_title(DB, UnknownTitle)
          = RankingOf(word_frequencies, book[1].id)


\* seq is the beginning of longer
IsPrefix(seq, longer) ==
    /\ Len(seq) <= Len(longer)
    /\ SubSeq(longer, 1, Len(seq)) = seq

\* C16: the committed book table only grows at its end: every row keeps its
\* place, id, title and link; and the connection sees every committed row
\* unchanged.
C16_BooksOnlyGrow ==
    [][/\ IsPrefix(disk.book, disk'.book)
       /\ IsPrefix(disk'.book, book')]_vars

\* a link was stored with one title and then with another: both rows are
\* there, the first as it was
C16_Witness ==
    /\ ingests = 2
    /\ Len(disk.book) = 2
    /\ disk.book[1].link = disk.book[2].link
    /\ disk.book[1].title # disk.book[2].title
    /\ last.outcome = "stored"
    /\ last.book_id = disk.book[2].id

\* C17: an ingestion that stores a ranking leaves the rows of every other
\* book as they were and changes no book row (it adds one if the book is
\* new); a lookup changes neither table, in the connection or on disk.
C17_OnlyOwnRanking ==
    [][/\ (last'.op = "ingest" /\ last'.outcome = "stored"
           /\ ingests' = ingests + 1) =>
            /\ \A i \in 1..Len(book) :
                  book[i].id # last'.book_id =>
                     RankingOf(word_frequencies', book[i].id)
                        = RankingOf(word_frequencies, book[i].id)
            /\ IsPrefix(book, book')
            /\ last'.existed => book' = book
       /\ (last'.op = "lookup") =>
            /\ book' = book
            /\ word_frequencies' = word_frequencies
            /\ disk' = disk]_vars

\* a ranking was stored for a second book while the first had rows
C17_Witness ==
    /\ Len(book) = 2
    /\ last.op = "ingest"
    /\ last.outcome = "stored"
    /\ last.book_id = book[2].id
    /\ last.result # <<>>
    /\ RankingOf(word_frequencies, book[1].id) # <<>>

\* C18: in the connection and on disk, the book_id of every
\* word_frequencies row is the id of a book row.
C18_RowsHaveBook ==
    /\ \A i \in 1..Len(word_frequencies) :
          \E b \in 1..Len(book) : book[b].id = word_frequencies[i].book_id
    /\ \A i \in 1..Len(disk.word_frequencies) :
          \E b \in 1..Len(disk.book) :
             disk.book[b].id = disk.word_frequencies[i].book_id

\* rows of two books are on disk
C18_Witness ==
    /\ Len(disk.book) = 2
    /\ \A b \in 1..2 :
          \E i \in 1..Len(disk.word_frequencies) :
             disk.word_frequencies[i].book_id = disk.book[b].id

====
